---- MODULE Spec2Model ----
(***************************************************************************)
(* Model of btctrader/trader/markets.py: the market adapters MtGoxMarket,  *)
(* BitstampMarket and CampBxMarket (request throttle, request client with  *)
(* retry, order execution, price cache).                                   *)
(*                                                                         *)
(* Units.  Time is counted in ticks of half a second (CampBX's window is   *)
(* 0.5 s).  Amounts are counted in 0.001 BTC, prices in 0.01 of the quote  *)
(* currency.                                                               *)
(***************************************************************************)
EXTENDS Integers, Sequences, FiniteSets, TLC

VARIABLES
    market,          \* models.Market.api_name of the adapter instance
    now,             \* wall clock (timezone.now(), time.time()), in ticks
    req_timestamps,  \* self.req_timestamps
    trade_fee_valid, \* self.trade_fee_valid
    orders,          \* the models.Order rows of this market
    prices,          \* the models.MarketPrice rows of this market
    ret,             \* observer: what the last operation returned and sent
    recent,          \* observer: release times inside the window ending at the last release
    adm              \* observer: the throttle() calls made so far

vars == <<market, now, req_timestamps, trade_fee_valid, orders, prices, ret, recent, adm>>

----------------------------------------------------------------------------
(* Bounds of the model *)

MaxTime == 3
MaxAdmits == 12
MaxClock == 125
MaxCalls == 3
MaxPrices == 2

----------------------------------------------------------------------------
(* Time and configuration *)

Seconds(s) == 2 * s

AVAILABLE_MARKETS == {"mtgox", "bitstamp", "campbx"}

\* self.reqs: {'max': 10, 'window': 10}, {'max': 600, 'window': 600},
\* {'max': 1, 'window': 0.5}; the window in ticks
reqs(m) ==
    CASE m = "mtgox"    -> [max |-> 10,  window |-> Seconds(10)]
      [] m = "bitstamp" -> [max |-> 600, window |-> Seconds(600)]
      [] m = "campbx"   -> [max |-> 1,   window |-> 1]

tryout == 5

timeout == Seconds(15)

market_price_max_age == Seconds(60)

NoSleep == -1

----------------------------------------------------------------------------
(* throttle() *)

\* list.remove(x): drops the first element equal to x
RECURSIVE RemoveFirst(_, _)
RemoveFirst(list, x) ==
    IF list = <<>> THEN <<>>
    ELSE IF Head(list) = x THEN Tail(list)
    ELSE <<Head(list)>> \o RemoveFirst(Tail(list), x)

\* A variant of the pruning loop that restarts at the head after a removal.
RECURSIVE PruneFromFront(_, _, _, _)
PruneFromFront(list, i, cur, window) ==
    IF list = <<>> THEN list
    ELSE IF cur - list[1] > window THEN PruneFromFront(Tail(list), i, cur, window)
    ELSE list

\* "for timestamp in self.req_timestamps: if old: remove(timestamp) else: break".
\* The list iterator keeps its index while the list shrinks under it: after a
\* removal at index i the next element visited is the one at index i + 1 of
\* the shortened list.
RECURSIVE Prune(_, _, _, _)
Prune(list, i, cur, window) ==
    IF i > Len(list) THEN list
    ELSE IF cur - list[i] > window
         THEN Prune(RemoveFirst(list, list[i]), i + 1, cur, window)
         ELSE list

\* The release times still inside the window that ends at release time r.
Window(rel, r, window) == SelectSeq(rel, LAMBDA x : x > r - window)

\* A throttle that returns at once when the budget is exceeded.
throttleNoSleep(s, m) ==
    LET Do(cur, ts2) ==
            [s EXCEPT !.ts = ts2,
                      !.raised = FALSE,
                      !.recent = Append(Window(s.recent, cur, reqs(m).window), cur),
                      !.adm = [n |-> s.adm.n + 1,
                               first |-> IF s.adm.n = 0 THEN cur ELSE s.adm.first,
                               at |-> cur, sleep |-> NoSleep, raised |-> FALSE]]
    IN  Do(s.now, Append(Prune(s.ts, 1, s.now, reqs(m).window), s.now))

\* One call of throttle() on the instance state s = [ts, now, recent, adm, raised].
\* time.sleep(d) with d < 0 raises (IOError, errno 22): the call does not return.
throttle(s, m) ==
    LET Do(cur, ts2) ==
            LET over == Len(ts2) > reqs(m).max
                d == reqs(m).window - (cur - ts2[1])
                bad == over /\ d < 0
                out == IF over /\ ~bad THEN cur + d ELSE cur
            IN  [s EXCEPT !.ts = ts2,
                          !.now = out,
                          !.raised = bad,
                          !.recent = IF bad THEN s.recent
                                     ELSE Append(Window(s.recent, out, reqs(m).window), out),
                          !.adm = [n |-> s.adm.n + 1,
                                   first |-> IF s.adm.n = 0 THEN cur ELSE s.adm.first,
                                   at |-> cur,
                                   sleep |-> IF over THEN d ELSE NoSleep,
                                   raised |-> bad]]
    IN  Do(s.now, Append(Prune(s.ts, 1, s.now, reqs(m).window), s.now))

\* The instance state the pure operators thread through a handler.
Self == [ts |-> req_timestamps, now |-> now, recent |-> recent, adm |-> adm,
         raised |-> FALSE]

----------------------------------------------------------------------------
(* api_request() *)

\* What the transport does with one attempt: requests.Timeout, another
\* transport exception, a non-200 response, a 200 response whose body reports
\* success, a 200 response whose body reports an application error.
Outcomes == {"timeout", "conn_error", "http_error", "ok200", "err200"}

\* The transport's answers to attempts 1..tryout of one request: k timeouts,
\* then r, then success for any attempt after that.
Scripts ==
    {[i \in 1..tryout |-> IF i <= k THEN "timeout" ELSE IF i = k + 1 THEN r ELSE "ok200"] :
        k \in 0..tryout, r \in Outcomes}

\* Whether the first answer of the script that is not a timeout is a success.
Accepts(script) ==
    \E j \in 1..tryout : script[j] = "ok200" /\ \A l \in 1..(j - 1) : script[l] = "timeout"

AllOk == [i \in 1..tryout |-> "ok200"]

\* post_data=None / data=None
NoData == <<>>
OneOf(S) == CHOOSE x \in S : TRUE

\* A retry loop that also retries after a non-200 response.
RECURSIVE RunAttemptsRetryOnError(_, _, _, _, _)
RunAttemptsRetryOnError(s, m, script, tries, attempts) ==
    IF tries >= tryout THEN [s |-> s, attempts |-> attempts, resp |-> "none", raised |-> FALSE]
    ELSE LET Sent(s1, o, att) ==
                 IF s1.raised
                 THEN [s |-> s1, attempts |-> attempts, resp |-> "none", raised |-> TRUE]
                 ELSE IF o = "timeout"
                 THEN RunAttemptsRetryOnError([s1 EXCEPT !.now = @ + timeout], m, script, tries + 1, att)
                 ELSE IF o = "http_error" /\ tries + 1 < tryout
                 THEN RunAttemptsRetryOnError(s1, m, script, tries + 1, att)
                 ELSE IF o = "conn_error"
                 THEN [s |-> s1, attempts |-> att, resp |-> "none", raised |-> TRUE]
                 ELSE [s |-> s1, attempts |-> att, resp |-> o, raised |-> FALSE]
         IN  Sent(throttle(s, m), script[tries + 1], Append(attempts, script[tries + 1]))

\* "while tries < self.tryout": throttle, send, "except requests.Timeout:
\* continue", otherwise break.  attempts lists the requests handed to the
\* transport; a timed-out attempt has waited self.timeout.
RECURSIVE RunAttempts(_, _, _, _, _)
RunAttempts(s, m, script, tries, attempts) ==
    IF tries >= tryout THEN [s |-> s, attempts |-> attempts, resp |-> "none", raised |-> FALSE]
    ELSE LET Sent(s1, o, att) ==
                 IF s1.raised
                 THEN [s |-> s1, attempts |-> attempts, resp |-> "none", raised |-> TRUE]
                 ELSE IF o = "timeout"
                 THEN RunAttempts([s1 EXCEPT !.now = @ + timeout], m, script, tries + 1, att)
                 ELSE IF o = "conn_error"
                 THEN [s |-> s1, attempts |-> att, resp |-> "none", raised |-> TRUE]
                 ELSE [s |-> s1, attempts |-> att, resp |-> o, raised |-> FALSE]
         IN  Sent(throttle(s, m), script[tries + 1], Append(attempts, script[tries + 1]))

\* A classification that returns the failure triple when there is no response.
ClassifyNoneSafe(m, check_success, run) ==
    IF run.raised THEN [status |-> "raise", err |-> "exception in request loop"]
    ELSE IF run.resp = "none" \/ run.resp = "http_error"
    THEN [status |-> "fail", err |-> "HTTP request failed"]
    ELSE IF m = "mtgox" /\ check_success /\ run.resp = "err200"
    THEN [status |-> "fail", err |-> "API request did not return success response"]
    ELSE IF m = "campbx" /\ run.resp = "err200"
    THEN [status |-> "fail", err |-> "API request failed"]
    ELSE [status |-> "ok", err |-> "None"]

\* A classification that takes every 200 response for a success.
ClassifyIgnoringBody(m, check_success, run) ==
    IF run.raised THEN [status |-> "raise", err |-> "exception in request loop"]
    ELSE IF run.resp = "none"
    THEN [status |-> "raise", err |-> "AttributeError: NoneType has no status_code"]
    ELSE IF run.resp = "http_error"
    THEN [status |-> "fail", err |-> "HTTP request failed"]
    ELSE [status |-> "ok", err |-> "None"]

\* "if resp is None or resp.status_code != 200: return False, '... status %s'
\* % (resp.status_code, path), resp": with resp None, building the message
\* reads resp.status_code and raises AttributeError.
Classify(m, check_success, run) ==
    IF run.raised THEN [status |-> "raise", err |-> "exception in request loop"]
    ELSE IF run.resp = "none"
    THEN [status |-> "raise", err |-> "AttributeError: NoneType has no status_code"]
    ELSE IF run.resp = "http_error"
    THEN [status |-> "fail", err |-> "HTTP request failed"]
    ELSE IF m = "mtgox" /\ check_success /\ run.resp = "err200"
    THEN [status |-> "fail", err |-> "API request did not return success response"]
    ELSE IF m = "campbx" /\ run.resp = "err200"
    THEN [status |-> "fail", err |-> "API request failed"]
    ELSE [status |-> "ok", err |-> "None"]

\* "str(int(time.time() * 1000))": the clock in milliseconds.  A tick is 500
\* ms; within a tick the clock is ahead by at least one millisecond for
\* every attempt made so far.
nonce(s) == 500 * s.now + s.adm.n

\* One call of api_request: the instance state after it, the status of the
\* call ("ok": success triple, "fail": failure triple, "raise": an exception
\* left the call), the body kind received and the log entry of the request
\* (its path, the post_data handed over, the nonce put in front of it when
\* the request is signed, and the attempts made).  The nonce is taken once,
\* before the loop: every attempt of the request carries it.  MtGoxMarket
\* alone signs with a nonce.
api_request(s, m, path, post_data, check_success, authenticate, script) ==
    LET Done(run, c) ==
            [s |-> run.s, status |-> c.status, err |-> c.err, body |-> run.resp,
             log |-> [path |-> path, post_data |-> post_data,
                      nonce |-> IF m = "mtgox" /\ authenticate THEN <<nonce(s)>> ELSE <<>>,
                      attempts |-> run.attempts]]
        Answered(run) == Done(run, Classify(m, check_success, run))
    IN  Answered(RunAttempts(s, m, script, 0, <<>>))

\* The answer that ended the request of log entry e: the answer to its last
\* attempt ("none" when the throttle let no attempt through).
LastAnswer(e) == IF e.attempts = <<>> THEN "none" ELSE e.attempts[Len(e.attempts)]

----------------------------------------------------------------------------
(* Currencies, orders and quotes *)

AmountUnit == 10^3   \* amounts per BTC
PriceUnit == 10^2    \* prices per unit of the quote currency

MTGOX_CURRENCY_DIVISIONS ==
    [c \in {"BTC", "USD", "GBP", "EUR", "JPY", "AUD", "CAD", "CHF", "CNY", "DKK",
            "HKD", "PLN", "RUB", "SEK", "SGD", "THB"} |->
        CASE c = "BTC" -> 100000000
          [] c \in {"JPY", "SEK"} -> 1000
          [] OTHER -> 100000]

\* 0.01 BTC
MTGOX_MINIMUM_TRADE_BTC == AmountUnit \div 100
BITSTAMP_MINIMUM_TRADE_BTC == AmountUnit \div 100

supported_currency_pairs(m) ==
    CASE m = "mtgox" ->
            {<<"BTC", c>> : c \in {"USD", "GBP", "EUR", "JPY", "AUD", "CAD", "CHF", "CNY",
                                   "DKK", "HKD", "PLN", "RUB", "SEK", "SGD", "THB"}}
      [] m = "bitstamp" -> {<<"BTC", "USD">>}
      [] m = "campbx" -> {<<"BTC", "USD">>}

\* self.market.default_currency_from / default_currency_to
default_currency_pair == <<"BTC", "USD">>

\* The pairs callers ask for: supported everywhere, supported by MtGox alone,
\* supported nowhere.
Pairs == {<<"BTC", "USD">>, <<"BTC", "EUR">>, <<"LTC", "USD">>}

\* The argument (currency_from, currency_to) of api_get_current_market_price:
\* a pair, or None for both.
NoPair == <<"None", "None">>
PairArgs == Pairs \cup {NoPair}

\* What the exchange's order book shows: best bid and best ask (ask > bid).
Tickers == {[bid |-> 99 * PriceUnit, ask |-> 101 * PriceUnit],
            [bid |-> 150 * PriceUnit, ask |-> 152 * PriceUnit]}

\* The ticker body each exchange sends for order book tk: MtGox
\* <pair>/money/ticker_fast has buy (bid) and sell (ask) with value_int scaled
\* by the quote currency's division, Bitstamp ticker/ has 'bid' and 'ask',
\* CampBX xticker.php has 'Best Bid' and 'Best Ask'.
TickerBody(m, tk, ct) ==
    CASE m = "mtgox" ->
            ("buy" :> (tk.bid * MTGOX_CURRENCY_DIVISIONS[ct]) \div PriceUnit)
            @@ ("sell" :> (tk.ask * MTGOX_CURRENCY_DIVISIONS[ct]) \div PriceUnit)
      [] m = "bitstamp" -> ("bid" :> tk.bid) @@ ("ask" :> tk.ask)
      [] m = "campbx" -> ("Best Bid" :> tk.bid) @@ ("Best Ask" :> tk.ask)

\* The identifiers the exchange gives to accepted orders.
RemoteIds == {"oid1", "oid2"}

OrderIds == {1}

Amounts == {AmountUnit \div 200, AmountUnit \div 2}
OrderPrices == {0, 100 * PriceUnit}

\* A models.Order row as the caller creates it: status 'N', no market_order_id.
NewOrders ==
    {[amount |-> a, status |-> "N", market_order_id |-> "",
      currency_from |-> p[1], currency_to |-> p[2],
      order_type |-> t, market_order |-> mo, price |-> pr] :
        a \in Amounts, p \in Pairs, t \in {"B", "S"}, mo \in BOOLEAN, pr \in OrderPrices}

\* The order used where the orders play no part: a limit order.
PlainOrder == [amount |-> AmountUnit \div 2, status |-> "N", market_order_id |-> "",
               currency_from |-> "BTC", currency_to |-> "USD",
               order_type |-> "B", market_order |-> FALSE, price |-> 100 * PriceUnit]

\* A market order.
MarketOrder == [PlainOrder EXCEPT !.order_type = "S", !.market_order = TRUE, !.price = 0]

OrderPair(o) == <<o.currency_from, o.currency_to>>

\* MarketPrice.objects.filter(market, currency_from, currency_to)
\* .order_by('-time')[0]: <<q>> for a row of the latest time, <<>> when the
\* query is empty (IndexError).
LastPrice(prs, pair) ==
    LET rows == {i \in 1..Len(prs) : <<prs[i].currency_from, prs[i].currency_to>> = pair}
    IN  IF rows = {} THEN {<<>>}
        ELSE {<<prs[i]>> : i \in {j \in rows : \A k \in rows : prs[k].time <= prs[j].time}}

----------------------------------------------------------------------------
(* api_get_current_market_price() *)

\* A parse that takes both sides from the exchange's own point of view.
ParseTickerSameSide(m, body, pair, t) ==
    LET bid == CASE m = "mtgox" -> (body["buy"] * PriceUnit) \div MTGOX_CURRENCY_DIVISIONS[pair[2]]
                 [] m = "bitstamp" -> body["bid"]
                 [] m = "campbx" -> body["Best Bid"]
        ask == CASE m = "mtgox" -> (body["sell"] * PriceUnit) \div MTGOX_CURRENCY_DIVISIONS[pair[2]]
                 [] m = "bitstamp" -> body["ask"]
                 [] m = "campbx" -> body["Best Ask"]
    IN  [time |-> t, currency_from |-> pair[1], currency_to |-> pair[2],
         buy_price |-> bid, sell_price |-> ask]

\* The MarketPrice row built from a ticker body.  MtGox: buy_price from
\* ticker['sell'], sell_price from ticker['buy'], value_int divided by the
\* quote currency's division.  Bitstamp: buy_price from 'ask', sell_price from
\* 'bid'.  CampBX: buy_price from 'Best Bid', sell_price from 'Best Ask'.
ParseTicker(m, body, pair, t) ==
    [time |-> t, currency_from |-> pair[1], currency_to |-> pair[2],
     buy_price |->
        CASE m = "mtgox" -> (body["sell"] * PriceUnit) \div MTGOX_CURRENCY_DIVISIONS[pair[2]]
          [] m = "bitstamp" -> body["ask"]
          [] m = "campbx" -> body["Best Bid"],
     sell_price |->
        CASE m = "mtgox" -> (body["buy"] * PriceUnit) \div MTGOX_CURRENCY_DIVISIONS[pair[2]]
          [] m = "bitstamp" -> body["bid"]
          [] m = "campbx" -> body["Best Ask"]]

\* Whether the row last (<<>> or <<q>>) is recent enough at time t.
Fresh(last, t) == last # <<>> /\ t - last[1].time <= market_price_max_age

\* A cache test that never accepts the stored row.
UseCacheNever(force_update, last, t) == FALSE

\* A cache test that overlooks force_update.
UseCacheIgnoringForce(force_update, last, t) == Fresh(last, t)

\* "if not force_update: ... if age <= self.market_price_max_age: return last_price"
UseCache(force_update, last, t) == ~force_update /\ Fresh(last, t)

\* One call of api_get_current_market_price.  arg is the (currency_from,
\* currency_to) argument, last the row the latest-price query returns, tk the
\* order book the exchange would report.
api_get_current_market_price(s, prs, m, force_update, arg, script, tk, last) ==
    LET pair == IF arg = NoPair THEN default_currency_pair ELSE arg
        Fetched(r) ==
            LET q == ParseTicker(m, TickerBody(m, tk, pair[2]), pair, r.s.now)
            IN  IF r.status # "ok"
                THEN [s |-> r.s, prices |-> prs, status |-> r.status, err |-> r.err,
                      result |-> <<>>, log |-> <<r.log>>]
                ELSE IF r.body = "err200"
                \* Bitstamp alone reports an error body as success:
                \* ticker['ask'] is missing from it (KeyError)
                THEN [s |-> r.s, prices |-> prs, status |-> "raise", err |-> "KeyError",
                      result |-> <<>>, log |-> <<r.log>>]
                ELSE [s |-> r.s, prices |-> Append(prs, q), status |-> "ok", err |-> "None",
                      result |-> <<q>>, log |-> <<r.log>>]
    IN  IF pair \notin supported_currency_pairs(m)
        THEN [s |-> s, prices |-> prs, status |-> "fail",
              err |-> "Currency pair not supported", result |-> <<>>, log |-> <<>>]
        ELSE IF UseCache(force_update, last, s.now)
        THEN [s |-> s, prices |-> prs, status |-> "ok", err |-> "None",
              result |-> last, log |-> <<>>]
        ELSE Fetched(api_request(s, m, "ticker", NoData, TRUE, FALSE, script))

----------------------------------------------------------------------------
(* api_execute_order() *)

\* What api_execute_order hands back: the instance state, the order row, the
\* MarketPrice rows, the fee flag, the outcome and the requests sent.
ExecResult(s, o, prs, fee, status, err, log) ==
    [s |-> s, order |-> o, prices |-> prs, fee |-> fee, status |-> status,
     err |-> err, log |-> log]

\* A validation that never finds the order submitted.
AlreadySubmittedNever(o) == FALSE

\* "if order.status != 'N' or order.market_order_id != ''"
AlreadySubmitted(o) == o.status # "N" \/ o.market_order_id # ""

\* A price check that lets a zero price through.
MissingPriceNever(o) == FALSE

\* "if not order.market_order: if order.price > 0: ... else: return False"
MissingPrice(o) == ~o.market_order /\ ~(o.price > 0)

\* A successful placement that leaves the fee flag as it is.
KeepTradeFee(fee) == fee

\* "Invalidate trade fee: self.trade_fee_valid = False"
InvalidateTradeFee(fee) == FALSE

\* A trade request that scales the amount, like the price, by the quote
\* currency's division.
mtgox_trade_reqOneDivision(o) ==
    LET type == IF o.order_type = "B" THEN "bid" ELSE "ask"
        amount_int == o.amount * (MTGOX_CURRENCY_DIVISIONS[o.currency_to] \div AmountUnit)
        price_int == o.price * (MTGOX_CURRENCY_DIVISIONS[o.currency_to] \div PriceUnit)
    IN  IF o.market_order
        THEN ("type" :> type) @@ ("amount_int" :> amount_int)
        ELSE ("type" :> type) @@ ("amount_int" :> amount_int) @@ ("price_int" :> price_int)

\* The trade request MtGoxMarket.api_execute_order builds: 'type' from
\* order_type, amount_int = int(amount * division of currency_from) and, for an
\* order that is not a market order, price_int = int(price * division of
\* currency_to).  Amounts and prices are held in 1/AmountUnit and 1/PriceUnit,
\* which divide the divisions, so the products are whole numbers.
mtgox_trade_req(o) ==
    LET type == IF o.order_type = "B" THEN "bid" ELSE "ask"
        amount_int == o.amount * (MTGOX_CURRENCY_DIVISIONS[o.currency_from] \div AmountUnit)
        price_int == o.price * (MTGOX_CURRENCY_DIVISIONS[o.currency_to] \div PriceUnit)
    IN  IF o.market_order
        THEN ("type" :> type) @@ ("amount_int" :> amount_int)
        ELSE ("type" :> type) @@ ("amount_int" :> amount_int) @@ ("price_int" :> price_int)

\* The trade request BitstampMarket.api_execute_order builds for an order that
\* is not a market order: amount and price as they are.
bitstamp_trade_req(o) == ("amount" :> o.amount) @@ ("price" :> o.price)

\* MtGoxMarket.api_execute_order
mtgox_api_execute_order(s, o, prs, fee, script, oid) ==
    LET Placed(r) ==
            IF r.status # "ok"
            THEN ExecResult(r.s, o, prs, fee, r.status, r.err, <<r.log>>)
            ELSE ExecResult(r.s, [o EXCEPT !.market_order_id = oid, !.status = "O"],
                            prs, InvalidateTradeFee(fee), "ok", "None", <<r.log>>)
    IN  IF o.amount < MTGOX_MINIMUM_TRADE_BTC
        THEN ExecResult(s, o, prs, fee, "fail", "Trade amount lower than minimum trade", <<>>)
        ELSE IF AlreadySubmitted(o)
        THEN ExecResult(s, o, prs, fee, "fail", "Order has already been submitted", <<>>)
        ELSE IF OrderPair(o) \notin supported_currency_pairs("mtgox")
        THEN ExecResult(s, o, prs, fee, "fail", "Currency pairing not supported", <<>>)
        ELSE IF o.order_type \notin {"B", "S"}
        THEN ExecResult(s, o, prs, fee, "fail", "Unsupported order type", <<>>)
        ELSE IF MissingPrice(o)
        THEN ExecResult(s, o, prs, fee, "fail", "Must specify a price for a non-market order", <<>>)
        ELSE Placed(api_request(s, "mtgox", "order_add", mtgox_trade_req(o), TRUE, TRUE, script))

\* BitstampMarket.api_execute_order.  For a market order the quote is
\* refreshed with force_update=True; the next statement reads order.type, an
\* attribute the Order rows of this file do not have (they have order_type):
\* AttributeError.  For the other orders new_price stays 0.  A 200 response
\* with an error body has no 'id' (KeyError).
bitstamp_api_execute_order(s, o, prs, fee, script, oid, pscript, tk) ==
    LET Priced(pr) ==
            IF pr.status # "ok"
            THEN ExecResult(pr.s, o, pr.prices, fee, pr.status, pr.err, pr.log)
            ELSE ExecResult(pr.s, o, pr.prices, fee, "raise",
                            "AttributeError: Order has no attribute type", pr.log)
        Placed(r) ==
            IF r.status # "ok"
            THEN ExecResult(r.s, o, prs, fee, r.status, r.err, <<r.log>>)
            ELSE IF r.body = "err200"
            THEN ExecResult(r.s, o, prs, fee, "raise", "KeyError: id", <<r.log>>)
            ELSE ExecResult(r.s, [o EXCEPT !.market_order_id = oid, !.status = "O"],
                            prs, InvalidateTradeFee(fee), "ok", "None", <<r.log>>)
    IN  IF o.amount < BITSTAMP_MINIMUM_TRADE_BTC
        THEN ExecResult(s, o, prs, fee, "fail", "Trade amount lower than minimum trade", <<>>)
        ELSE IF AlreadySubmitted(o)
        THEN ExecResult(s, o, prs, fee, "fail", "Order has already been submitted", <<>>)
        ELSE IF OrderPair(o) \notin supported_currency_pairs("bitstamp")
        THEN ExecResult(s, o, prs, fee, "fail", "Currency pairing not supported", <<>>)
        ELSE IF o.order_type \notin {"B", "S"}
        THEN ExecResult(s, o, prs, fee, "fail", "Unsupported order type", <<>>)
        ELSE IF o.market_order
        THEN Priced(api_get_current_market_price(s, prs, "bitstamp", TRUE, OrderPair(o),
                                                 pscript, tk, <<>>))
        ELSE IF MissingPrice(o)
        THEN ExecResult(s, o, prs, fee, "fail", "Must specify a price for a non-market order", <<>>)
        ELSE Placed(api_request(s, "bitstamp", "order_add", bitstamp_trade_req(o), FALSE, TRUE, script))

\* MarketBase.api_execute_order, which CampBxMarket inherits
base_api_execute_order(s, o, prs, fee) ==
    ExecResult(s, o, prs, fee, "fail", "Not implemented", <<>>)

----------------------------------------------------------------------------
(* api_get_trade_fee() *)

\* A fee lookup that asks the exchange whether or not the cached fee is valid.
mtgox_api_get_trade_feeAlwaysAsk(s, fee, script) ==
    LET Asked(r) ==
            IF r.status # "ok"
            THEN [s |-> r.s, fee |-> fee, status |-> r.status, err |-> r.err, log |-> <<r.log>>]
            ELSE [s |-> r.s, fee |-> TRUE, status |-> "ok", err |-> "None", log |-> <<r.log>>]
    IN  Asked(api_request(s, "mtgox", "info", NoData, TRUE, TRUE, script))

\* MtGoxMarket.api_get_trade_fee: while the flag is set the stored fee is
\* returned; otherwise <default pair>/money/info is asked and, when that
\* succeeds, the fee is stored and the flag set.
mtgox_api_get_trade_fee(s, fee, script) ==
    LET Asked(r) ==
            IF r.status # "ok"
            THEN [s |-> r.s, fee |-> fee, status |-> r.status, err |-> r.err, log |-> <<r.log>>]
            ELSE [s |-> r.s, fee |-> TRUE, status |-> "ok", err |-> "None", log |-> <<r.log>>]
    IN  IF fee THEN [s |-> s, fee |-> fee, status |-> "ok", err |-> "None", log |-> <<>>]
        ELSE Asked(api_request(s, "mtgox", "info", NoData, TRUE, TRUE, script))

----------------------------------------------------------------------------
(* api_cancel_order(), update_db_order_status(), api_update_order_status() *)

\* What an operation on one order hands back.
OrderResult(s, o, status, err, log) ==
    [s |-> s, order |-> o, status |-> status, err |-> err, log |-> log]

\* A cancellation that asks the exchange whatever the order's status is.
NotCancellableNever(o) == FALSE

\* "if order.status not in ('O', 'E')"
NotCancellable(o) == o.status \notin {"O", "E"}

\* A cancellation that marks the order Filled once the exchange acknowledges.
mtgox_api_cancel_orderMarking(s, o, script) ==
    LET Asked(r) ==
            IF r.status # "ok" THEN OrderResult(r.s, o, r.status, r.err, <<r.log>>)
            ELSE IF r.body # "ok200"
            THEN OrderResult(r.s, o, "fail", "Unable to cancel order", <<r.log>>)
            ELSE OrderResult(r.s, [o EXCEPT !.status = "F"], "ok", "None", <<r.log>>)
    IN  IF NotCancellable(o)
        THEN OrderResult(s, o, "fail", "Order is not currently open or executing", <<>>)
        ELSE Asked(api_request(s, "mtgox", "order_cancel", "oid" :> o.market_order_id,
                               FALSE, TRUE, script))

\* MtGoxMarket.api_cancel_order: the request is made with check_success=False
\* and the 'result' field of the body is tested by the caller.  The order is
\* not assigned to.
mtgox_api_cancel_order(s, o, script) ==
    LET Asked(r) ==
            IF r.status # "ok" THEN OrderResult(r.s, o, r.status, r.err, <<r.log>>)
            ELSE IF r.body # "ok200"
            THEN OrderResult(r.s, o, "fail", "Unable to cancel order", <<r.log>>)
            ELSE OrderResult(r.s, o, "ok", "None", <<r.log>>)
    IN  IF NotCancellable(o)
        THEN OrderResult(s, o, "fail", "Order is not currently open or executing", <<>>)
        ELSE Asked(api_request(s, "mtgox", "order_cancel", "oid" :> o.market_order_id,
                               FALSE, TRUE, script))

\* MarketBase.api_cancel_order and api_update_order_status, which
\* BitstampMarket and CampBxMarket inherit
base_api_order_operation(s, o) == OrderResult(s, o, "fail", "Not implemented", <<>>)

\* The status strings of the records of <pair>/money/orders; "stop" stands for
\* a string the code has no branch for.
RemoteStatuses == {"pending", "executing", "post-pending", "open", "invalid", "stop"}

\* A lookup that takes every status it does not know for open.
StatusOfDefaultOpen(st) ==
    CASE st \in {"pending", "executing", "post-pending"} -> "E"
      [] st = "invalid" -> "I"
      [] OTHER -> "O"

\* "Update status": the if / elif chain over open_order['status']
StatusOf(st) ==
    CASE st \in {"pending", "executing", "post-pending"} -> "E"
      [] st = "open" -> "O"
      [] st = "invalid" -> "I"
      [] OTHER -> "U"

\* The index of the first record of mtgox_orders whose oid is the order's
\* market_order_id, 0 when there is none ("for open_order in mtgox_orders: if
\* open_order['oid'] == db_order.market_order_id").
FirstMatch(db_order, mtgox_orders) ==
    LET M == {k \in 1..Len(mtgox_orders) : mtgox_orders[k].oid = db_order.market_order_id}
    IN  IF M = {} THEN 0 ELSE CHOOSE k \in M : \A j \in M : k <= j

\* A validation that does not compare the amounts.
MismatchIgnoringAmount(db_order, open_order) ==
    IF open_order.currency # db_order.currency_to
    THEN "Order currency_to does not match expected value"
    ELSE IF open_order.item # db_order.currency_from
    THEN "Order currency_from does not match expected value"
    ELSE IF db_order.market_order /\ open_order.price # 0
    THEN "Order expected to be a market order"
    ELSE "None"

\* "Validate order parameters": the message of the first check that fails,
\* "None" when the record agrees with the database.
Mismatch(db_order, open_order) ==
    IF open_order.currency # db_order.currency_to
    THEN "Order currency_to does not match expected value"
    ELSE IF open_order.item # db_order.currency_from
    THEN "Order currency_from does not match expected value"
    ELSE IF open_order.amount # db_order.amount
    THEN "Order amount does not match expected value"
    ELSE IF db_order.market_order /\ open_order.price # 0
    THEN "Order expected to be a market order"
    ELSE "None"

\* An inference that takes every order the exchange does not list for filled.
InferFilledAlways(db_order) == TRUE

\* "if not found and db_order.status in ['O', 'E']"
InferFilled(db_order) == db_order.status \in {"O", "E"}

\* MtGoxMarket.update_db_order_status: the order row after it and the outcome.
update_db_order_status(db_order, mtgox_orders) ==
    LET Found(k) ==
            IF k = 0
            THEN [order |-> IF InferFilled(db_order) THEN [db_order EXCEPT !.status = "F"]
                            ELSE db_order,
                  status |-> "ok", err |-> "None"]
            ELSE IF Mismatch(db_order, mtgox_orders[k]) # "None"
            THEN [order |-> db_order, status |-> "fail",
                  err |-> Mismatch(db_order, mtgox_orders[k])]
            ELSE [order |-> [db_order EXCEPT !.status = StatusOf(mtgox_orders[k].status)],
                  status |-> "ok", err |-> "None"]
    IN  Found(FirstMatch(db_order, mtgox_orders))

\* MtGoxMarket.api_update_order_status: fetch <pair>/money/orders and hand the
\* list to update_db_order_status.
mtgox_api_update_order_status(s, o, script, mtgox_orders) ==
    LET Updated(r, u) == OrderResult(r.s, u.order, u.status, u.err, <<r.log>>)
        Fetched(r) ==
            IF r.status # "ok" THEN OrderResult(r.s, o, r.status, r.err, <<r.log>>)
            ELSE Updated(r, update_db_order_status(o, mtgox_orders))
    IN  Fetched(api_request(s, "mtgox", "orders", NoData, TRUE, TRUE, script))

----------------------------------------------------------------------------
(* api_update_market() *)

\* A filter that leaves the Unknown orders out.
order_set_filterKnown(ords) == {i \in DOMAIN ords : ords[i].status \in {"N", "O", "E"}}

\* "self.market.order_set.filter(order_status__in=['N', 'O', 'E', 'U'])": the
\* rows of the market's orders whose status is in the list.
order_set_filter(ords) == {i \in DOMAIN ords : ords[i].status \in {"N", "O", "E", "U"}}

\* The orders in which the query set may hand over the rows S: it has no
\* order_by.
Batches(S) ==
    {b \in [1..Cardinality(S) -> S] : \A j, k \in 1..Cardinality(S) : b[j] = b[k] => j = k}

\* A loop that goes on to the next order after a failure.
RECURSIVE ReconcileBestEffort(_, _, _, _)
ReconcileBestEffort(ords, mtgox_orders, batch, k) ==
    IF k > Len(batch) THEN [orders |-> ords, status |-> "ok", err |-> "None", failed_at |-> 0]
    ELSE LET Step(u) ==
                 ReconcileBestEffort([ords EXCEPT ![batch[k]] = u.order], mtgox_orders, batch, k + 1)
         IN  Step(update_db_order_status(ords[batch[k]], mtgox_orders))

\* "for db_order in db_orders: success, err, result =
\* self.update_db_order_status(db_order, mtgox_orders); if not success:
\* return": the rows after the loop, its outcome and the position in the
\* batch of the order that failed (0: none).
RECURSIVE Reconcile(_, _, _, _)
Reconcile(ords, mtgox_orders, batch, k) ==
    IF k > Len(batch) THEN [orders |-> ords, status |-> "ok", err |-> "None", failed_at |-> 0]
    ELSE LET Step(u) ==
                 IF u.status # "ok"
                 THEN [orders |-> ords, status |-> u.status, err |-> u.err, failed_at |-> k]
                 ELSE Reconcile([ords EXCEPT ![batch[k]] = u.order], mtgox_orders, batch, k + 1)
         IN  Step(update_db_order_status(ords[batch[k]], mtgox_orders))

\* What api_update_market hands back.
MarketResult(s, ords, prs, status, err, log, failed_at) ==
    [s |-> s, orders |-> ords, prices |-> prs, status |-> status, err |-> err,
     log |-> log, failed_at |-> failed_at]

\* An api_update_market whose quote refresh does not force the update.
mtgox_api_update_marketCached(s, ords, prs, script, mtgox_orders, batch, pscript, tk) ==
    LET Priced(r, rec, pr) ==
            MarketResult(pr.s, rec.orders, pr.prices, pr.status, pr.err,
                         <<r.log>> \o pr.log, 0)
        Reconciled(r, rec) ==
            IF rec.status # "ok"
            THEN MarketResult(r.s, rec.orders, prs, rec.status, rec.err, <<r.log>>, rec.failed_at)
            ELSE Priced(r, rec, api_get_current_market_price(r.s, prs, "mtgox", FALSE, NoPair,
                                    pscript, tk, OneOf(LastPrice(prs, default_currency_pair))))
        Fetched(r) ==
            IF r.status # "ok" THEN MarketResult(r.s, ords, prs, r.status, r.err, <<r.log>>, 0)
            ELSE Reconciled(r, Reconcile(ords, mtgox_orders, batch, 1))
    IN  Fetched(api_request(s, "mtgox", "orders", NoData, TRUE, TRUE, script))

\* MtGoxMarket.api_update_market: fetch <default pair>/money/orders,
\* reconcile the filtered rows in the order batch, then call
\* api_get_current_market_price(self.market): the market object lands in
\* force_update and is true there, the pair is the default one.
mtgox_api_update_market(s, ords, prs, script, mtgox_orders, batch, pscript, tk) ==
    LET Priced(r, rec, pr) ==
            MarketResult(pr.s, rec.orders, pr.prices, pr.status, pr.err,
                         <<r.log>> \o pr.log, 0)
        Reconciled(r, rec) ==
            IF rec.status # "ok"
            THEN MarketResult(r.s, rec.orders, prs, rec.status, rec.err, <<r.log>>, rec.failed_at)
            ELSE Priced(r, rec, api_get_current_market_price(r.s, prs, "mtgox", TRUE, NoPair,
                                                             pscript, tk, <<>>))
        Fetched(r) ==
            IF r.status # "ok" THEN MarketResult(r.s, ords, prs, r.status, r.err, <<r.log>>, 0)
            ELSE Reconciled(r, Reconcile(ords, mtgox_orders, batch, 1))
    IN  Fetched(api_request(s, "mtgox", "orders", NoData, TRUE, TRUE, script))

\* MarketBase.api_update_market, which BitstampMarket and CampBxMarket inherit
base_api_update_market(s, ords, prs) ==
    MarketResult(s, ords, prs, "fail", "Not implemented", <<>>, 0)

----------------------------------------------------------------------------
(* What <pair>/money/orders may list *)

\* The record the exchange lists for order o under oid with status st: the
\* quote currency, the item, the amount and the price (0 for a market order).
RecordOf(o, oid, st) ==
    [oid |-> oid, currency |-> o.currency_to, item |-> o.currency_from, amount |-> o.amount,
     price |-> IF o.market_order THEN 0 ELSE o.price, status |-> st]

\* Records that differ from r in one field.
Garbled(r) ==
    {[r EXCEPT !.currency = IF @ = "USD" THEN "EUR" ELSE "USD"],
     [r EXCEPT !.item = IF @ = "BTC" THEN "LTC" ELSE "BTC"],
     [r EXCEPT !.amount = @ + 1],
     [r EXCEPT !.price = @ + PriceUnit]}

\* The records the exchange may list under oid when the caller looks at the
\* rows ids of ords: for the oid of one of these rows, its record in any
\* status or with one field garbled; for another oid, the record of the row
\* that has it, or of some order of another client of the account.
RecordsFor(ords, ids, oid) ==
    LET own == {i \in DOMAIN ords : ords[i].market_order_id = oid}
        o == IF own = {} THEN PlainOrder ELSE ords[CHOOSE i \in own : TRUE]
    IN  IF own \cap ids # {}
        THEN {RecordOf(o, oid, st) : st \in RemoteStatuses} \cup Garbled(RecordOf(o, oid, "open"))
        ELSE {RecordOf(o, oid, "open")}

\* The lists of records: at most one record for each of the oids S.
RECURSIVE Snapshots(_, _, _)
Snapshots(ords, ids, S) ==
    IF S = {} THEN {<<>>}
    ELSE LET oid == CHOOSE x \in S : TRUE
             rest == Snapshots(ords, ids, S \ {oid})
         IN  rest \cup {<<r>> \o t : r \in RecordsFor(ords, ids, oid), t \in rest}

\* The answers to the requests of the operations below: no timeout, one, or
\* nothing but timeouts.
ShortScripts == {sc \in Scripts : sc[2] # "timeout" \/ sc[tryout] = "timeout"}

\* The answers to the two requests of api_update_market: no timeout, or
\* nothing but timeouts.
BatchScripts == {sc \in Scripts : sc[1] # "timeout" \/ sc[tryout] = "timeout"}

----------------------------------------------------------------------------
(* State after construction *)

NoRet == [op |-> "none", order |-> 0, force_update |-> FALSE, arg |-> NoPair,
          status |-> "ok", err |-> "None", result |-> <<>>, log |-> <<>>,
          mtgox_orders |-> <<>>, batch |-> <<>>, failed_at |-> 0, oid |-> "",
          check_success |-> TRUE]

NoAdm == [n |-> 0, first |-> 0, at |-> 0, sleep |-> NoSleep, raised |-> FALSE]

\* __init__: trade_fee_valid False, req_timestamps []; no MarketPrice rows;
\* the caller's orders are New.
InitAdapter ==
    /\ now = 0
    /\ req_timestamps = <<>>
    /\ trade_fee_valid = FALSE
    /\ prices = <<>>
    /\ ret = NoRet
    /\ recent = <<>>
    /\ adm = NoAdm

----------------------------------------------------------------------------
(* The throttle on its own *)

\* One call of throttle(); when it returns, the caller sends its request.
Throttle ==
    /\ adm.n < MaxAdmits
    /\ now <= MaxTime
    /\ \E s \in {throttle(Self, market)} :
           /\ now' = s.now
           /\ req_timestamps' = s.ts
           /\ recent' = s.recent
           /\ adm' = s.adm
           /\ ret' = [NoRet EXCEPT !.op = "throttle",
                                   !.status = IF s.raised THEN "raise" ELSE "ok"]
    /\ UNCHANGED <<market, trade_fee_valid, orders, prices>>

\* Time passes between calls: one tick, or a whole window.
Tick ==
    /\ now <= MaxTime
    /\ \E d \in {1, reqs(market).window} : now' = now + d
    /\ UNCHANGED <<market, req_timestamps, trade_fee_valid, orders, prices, ret, recent, adm>>

InitThrottle ==
    /\ market \in AVAILABLE_MARKETS
    /\ orders = [i \in OrderIds |-> PlainOrder]
    /\ InitAdapter

NextThrottle == Throttle \/ Tick

SpecThrottle == InitThrottle /\ [][NextThrottle]_vars

----------------------------------------------------------------------------
(* The operations of the adapter *)

\* Time passes between operations.
Elapse ==
    /\ \E d \in {Seconds(60), Seconds(61)} :
          /\ now + d <= MaxClock
          /\ now' = now + d
    /\ UNCHANGED <<market, req_timestamps, trade_fee_valid, orders, prices, ret, recent, adm>>

\* api_execute_order(order) on order row i, dispatched on the market's class.
ApiExecuteOrder(i) ==
    /\ adm.n < MaxCalls
    /\ Len(prices) < MaxPrices
    /\ LET o == orders[i]
           refresh == market = "bitstamp" /\ o.market_order
       \* the answers to the ticker request (asked for by Bitstamp market
       \* orders alone), then the answers to the placement request
       IN  \E pscript \in (IF refresh THEN Scripts ELSE {AllOk}) :
           \E tk \in (IF refresh /\ Accepts(pscript) THEN Tickers ELSE {OneOf(Tickers)}) :
           \E script \in (IF Accepts(pscript) THEN Scripts ELSE {AllOk}) :
           \E oid \in (IF Accepts(script) THEN RemoteIds ELSE {OneOf(RemoteIds)}) :
           \E res \in {CASE market = "mtgox" ->
                            mtgox_api_execute_order(Self, o, prices, trade_fee_valid, script, oid)
                         [] market = "bitstamp" ->
                            bitstamp_api_execute_order(Self, o, prices, trade_fee_valid,
                                                       script, oid, pscript, tk)
                         [] market = "campbx" ->
                            base_api_execute_order(Self, o, prices, trade_fee_valid)} :
                  /\ now' = res.s.now
                  /\ req_timestamps' = res.s.ts
                  /\ recent' = res.s.recent
                  /\ adm' = res.s.adm
                  /\ orders' = [orders EXCEPT ![i] = res.order]
                  /\ prices' = res.prices
                  /\ trade_fee_valid' = res.fee
                  \* ret.oid: the identifier in the exchange's answer, when it
                  \* answered the placement request with one
                  /\ ret' = [NoRet EXCEPT !.op = "execute", !.order = i,
                                          !.status = res.status, !.err = res.err,
                                          !.log = res.log,
                                          !.oid = IF /\ res.log # <<>>
                                                     /\ res.log[Len(res.log)].path = "order_add"
                                                     /\ LastAnswer(res.log[Len(res.log)]) = "ok200"
                                                  THEN oid ELSE ""]
    /\ UNCHANGED market

\* api_get_trade_fee(), which MtGoxMarket alone has.
ApiGetTradeFee ==
    /\ market = "mtgox"
    /\ adm.n < MaxCalls
    /\ \E script \in (IF trade_fee_valid THEN {AllOk} ELSE ShortScripts) :
       \E res \in {mtgox_api_get_trade_fee(Self, trade_fee_valid, script)} :
              /\ now' = res.s.now
              /\ req_timestamps' = res.s.ts
              /\ recent' = res.s.recent
              /\ adm' = res.s.adm
              /\ trade_fee_valid' = res.fee
              /\ ret' = [NoRet EXCEPT !.op = "trade_fee", !.status = res.status,
                                      !.err = res.err, !.log = res.log]
    /\ UNCHANGED <<market, orders, prices>>

\* api_get_current_market_price(force_update, currency_from, currency_to)
ApiGetCurrentMarketPrice(force_update, arg) ==
    /\ adm.n < MaxCalls
    /\ Len(prices) < MaxPrices
    /\ LET pair == IF arg = NoPair THEN default_currency_pair ELSE arg
       IN  \E script \in Scripts, last \in LastPrice(prices, pair) :
           \E tk \in (IF Accepts(script) THEN Tickers ELSE {OneOf(Tickers)}) :
           \E res \in {api_get_current_market_price(Self, prices, market, force_update,
                                                     arg, script, tk, last)} :
                  /\ now' = res.s.now
                  /\ req_timestamps' = res.s.ts
                  /\ recent' = res.s.recent
                  /\ adm' = res.s.adm
                  /\ prices' = res.prices
                  /\ ret' = [NoRet EXCEPT !.op = "price", !.force_update = force_update,
                                          !.arg = arg, !.status = res.status,
                                          !.err = res.err, !.result = res.result,
                                          !.log = res.log]
    /\ UNCHANGED <<market, trade_fee_valid, orders>>

\* Orders: the caller's orders are executed.
Init ==
    /\ market \in AVAILABLE_MARKETS
    /\ orders \in [OrderIds -> NewOrders]
    /\ InitAdapter

Next ==
    \/ \E i \in OrderIds : ApiExecuteOrder(i)
    \/ ApiGetTradeFee
    \/ Elapse

Spec == Init /\ [][Next]_vars

\* Prices: the caller asks for quotes.
InitPrice ==
    /\ market \in AVAILABLE_MARKETS
    /\ orders = [i \in OrderIds |-> PlainOrder]
    /\ InitAdapter

NextPrice ==
    \/ \E force_update \in BOOLEAN, arg \in PairArgs : ApiGetCurrentMarketPrice(force_update, arg)
    \/ Elapse

SpecPrice == InitPrice /\ [][NextPrice]_vars

\* api_request(path, ...) called on its own.  MtGoxMarket's takes
\* check_success and authenticate; BitstampMarket's and CampBxMarket's have
\* neither parameter.
ApiRequest(check_success, authenticate) ==
    /\ adm.n < MaxCalls
    /\ market # "mtgox" => check_success /\ authenticate
    /\ \E script \in Scripts :
       \E res \in {api_request(Self, market, "info", NoData, check_success,
                                authenticate, script)} :
              /\ now' = res.s.now
              /\ req_timestamps' = res.s.ts
              /\ recent' = res.s.recent
              /\ adm' = res.s.adm
              /\ ret' = [NoRet EXCEPT !.op = "request", !.check_success = check_success,
                                      !.status = res.status, !.err = res.err,
                                      !.result = <<res.body>>, !.log = <<res.log>>]
    /\ UNCHANGED <<market, trade_fee_valid, orders, prices>>

\* Requests: the caller sends requests.
InitRequest ==
    /\ market \in AVAILABLE_MARKETS
    /\ orders = [i \in OrderIds |-> PlainOrder]
    /\ InitAdapter

NextRequest ==
    \/ \E check_success \in BOOLEAN, authenticate \in BOOLEAN :
          ApiRequest(check_success, authenticate)
    \/ Elapse

SpecRequest == InitRequest /\ [][NextRequest]_vars

\* The rows of the market's orders when there are two of them.
BatchIds == {1, 2}

\* api_cancel_order(order) on order row i, dispatched on the market's class.
ApiCancelOrder(i) ==
    /\ adm.n < MaxCalls
    /\ \E script \in (IF market = "mtgox" THEN ShortScripts ELSE {AllOk}) :
       \E res \in {IF market = "mtgox" THEN mtgox_api_cancel_order(Self, orders[i], script)
                   ELSE base_api_order_operation(Self, orders[i])} :
              /\ now' = res.s.now
              /\ req_timestamps' = res.s.ts
              /\ recent' = res.s.recent
              /\ adm' = res.s.adm
              /\ orders' = [orders EXCEPT ![i] = res.order]
              /\ ret' = [NoRet EXCEPT !.op = "cancel", !.order = i, !.status = res.status,
                                      !.err = res.err, !.log = res.log]
    /\ UNCHANGED <<market, trade_fee_valid, prices>>

\* api_update_order_status(order) on order row i; mtgox_orders is what the
\* exchange lists.
ApiUpdateOrderStatus(i) ==
    /\ adm.n < MaxCalls
    /\ \E script \in (IF market = "mtgox" THEN ShortScripts ELSE {AllOk}) :
       \E mtgox_orders \in (IF market = "mtgox" /\ Accepts(script)
                            THEN Snapshots(orders, {i}, RemoteIds) ELSE {<<>>}) :
       \E res \in {IF market = "mtgox"
                   THEN mtgox_api_update_order_status(Self, orders[i], script, mtgox_orders)
                   ELSE base_api_order_operation(Self, orders[i])} :
              /\ now' = res.s.now
              /\ req_timestamps' = res.s.ts
              /\ recent' = res.s.recent
              /\ adm' = res.s.adm
              /\ orders' = [orders EXCEPT ![i] = res.order]
              /\ ret' = [NoRet EXCEPT !.op = "update_status", !.order = i,
                                      !.status = res.status, !.err = res.err, !.log = res.log,
                                      !.mtgox_orders = mtgox_orders]
    /\ UNCHANGED <<market, trade_fee_valid, prices>>

\* api_update_market(); batch is the order in which the query set hands over
\* the rows, mtgox_orders what the exchange lists: any record for one of the
\* rows, the other row's order open or gone.
ApiUpdateMarket ==
    /\ adm.n < MaxCalls
    /\ Len(prices) < MaxPrices
    /\ \E script \in (IF market = "mtgox" THEN BatchScripts ELSE {AllOk}) :
       \E mtgox_orders \in (IF market = "mtgox" /\ Accepts(script)
                            THEN UNION {Snapshots(orders, {i}, RemoteIds) : i \in DOMAIN orders}
                            ELSE {<<>>}) :
       \E batch \in (IF market = "mtgox" /\ Accepts(script)
                     THEN Batches(order_set_filter(orders)) ELSE {<<>>}) :
       \E pscript \in (IF market = "mtgox" /\ Accepts(script) THEN BatchScripts ELSE {AllOk}) :
       \E tk \in (IF market = "mtgox" /\ Accepts(script) /\ Accepts(pscript)
                  THEN Tickers ELSE {OneOf(Tickers)}) :
       \E res \in {IF market = "mtgox"
                   THEN mtgox_api_update_market(Self, orders, prices, script, mtgox_orders,
                                                batch, pscript, tk)
                   ELSE base_api_update_market(Self, orders, prices)} :
              /\ now' = res.s.now
              /\ req_timestamps' = res.s.ts
              /\ recent' = res.s.recent
              /\ adm' = res.s.adm
              /\ orders' = res.orders
              /\ prices' = res.prices
              /\ ret' = [NoRet EXCEPT !.op = "update_market", !.status = res.status,
                                      !.err = res.err, !.log = res.log,
                                      !.mtgox_orders = mtgox_orders, !.batch = batch,
                                      !.failed_at = res.failed_at]
    /\ UNCHANGED <<market, trade_fee_valid>>

\* Reconciliation: two orders of the caller, a limit or a market order and a
\* limit order, are executed, cancelled and reconciled with what the exchange
\* lists.
InitOrders ==
    /\ market \in AVAILABLE_MARKETS
    /\ \E o \in {PlainOrder, MarketOrder} :
          orders = [i \in BatchIds |-> IF i = 1 THEN o ELSE PlainOrder]
    /\ InitAdapter

NextOrders ==
    \/ \E i \in BatchIds : ApiExecuteOrder(i)
    \/ \E i \in BatchIds : ApiCancelOrder(i)
    \/ \E i \in BatchIds : ApiUpdateOrderStatus(i)
    \/ ApiUpdateMarket

SpecOrders == InitOrders /\ [][NextOrders]_vars

----------------------------------------------------------------------------
(* Claims about the throttle *)

\* C4: the requests released to the network within any interval of length
\* window never number more than max.  (recent holds the release times of
\* the window that ends at the latest release.)
C4_BudgetRespected == Len(recent) <= reqs(market).max

\* C5: on a fresh instance the first max calls of throttle() return without
\* suspending, and call max + 1, made within the window of the first call,
\* suspends for a duration between 0 and window.
C5_BackToBack ==
    LET r == reqs(market)
    IN  /\ (adm.n >= 1 /\ adm.n <= r.max) => (adm.sleep = NoSleep /\ ~adm.raised)
        /\ (adm.n = r.max + 1 /\ adm.at - adm.first <= r.window)
              => (adm.sleep >= 0 /\ adm.sleep <= r.window /\ ~adm.raised)
        /\ (adm.n = r.max + 1 /\ adm.sleep # NoSleep)
              => (adm.sleep >= 0 /\ adm.sleep <= r.window)

\* C5 witness: MtGox's eleventh call, made after the first, has suspended.
C5_Witness ==
    /\ market = "mtgox"
    /\ adm.n = reqs(market).max + 1
    /\ adm.at > adm.first
    /\ adm.sleep > 0 /\ adm.sleep < reqs(market).window
    /\ now = adm.at + adm.sleep

----------------------------------------------------------------------------
(* Claims about api_execute_order *)

\* Whether a precondition of api_execute_order fails for order o on market m.
PreconditionFails(m, o) ==
    \/ o.amount < (IF m = "mtgox" THEN MTGOX_MINIMUM_TRADE_BTC ELSE BITSTAMP_MINIMUM_TRADE_BTC)
    \/ o.status # "N" \/ o.market_order_id # ""
    \/ OrderPair(o) \notin supported_currency_pairs(m)
    \/ (~o.market_order /\ o.price <= 0)

\* The step is a call of api_execute_order on order i.  (The observer's
\* fields are compared first: they tell most steps apart at once.)
ExecuteStep(i) == ret'.op = "execute" /\ ret'.order = i /\ ApiExecuteOrder(i)

\* C1: when a precondition fails (amount below the minimum, status not New or
\* a remote identifier present, unsupported pair, non-market order without a
\* positive price) api_execute_order reports failure, leaves the order as it
\* was and sends nothing (it does not even reach the throttle).
C1_PreconditionFailureNoEffect ==
    [][\A i \in OrderIds :
          (PreconditionFails(market, orders[i]) /\ ExecuteStep(i))
             => /\ ret'.status = "fail"
                /\ orders' = orders
                /\ ret'.log = <<>>
                /\ adm' = adm /\ req_timestamps' = req_timestamps
                /\ prices' = prices /\ trade_fee_valid' = trade_fee_valid]_vars

\* C1 witness: Bitstamp has refused a New limit order of sufficient amount
\* on a supported pair for its missing price.
C1_Witness ==
    /\ market = "bitstamp"
    /\ ret.op = "execute" /\ ret.status = "fail"
    /\ ret.err = "Must specify a price for a non-market order"
    /\ orders[ret.order].price = 0 /\ orders[ret.order].status = "N"
    /\ ret.log = <<>>

\* C2: one api_execute_order call transmits at most one order-placement
\* request, retries after timeouts included.
C2_AtMostOnePlacement ==
    ret.op = "execute" =>
        \A j \in DOMAIN ret.log :
            ret.log[j].path = "order_add" => Len(ret.log[j].attempts) <= 1

\* C3: the remote identifier is set at most once, in the step that takes the
\* order out of New; on an order that has left New or has a remote identifier
\* api_execute_order fails validation and changes nothing.
C3_RemoteIdSetOnce ==
    [][\A i \in OrderIds :
          /\ orders'[i].market_order_id # orders[i].market_order_id
                => /\ orders[i].market_order_id = "" /\ orders[i].status = "N"
                   /\ orders'[i].market_order_id \in RemoteIds
                   /\ orders'[i].status = "O"
          /\ ((orders[i].market_order_id # "" \/ orders[i].status # "N")
                /\ ExecuteStep(i))
                => /\ ret'.status = "fail"
                   /\ ret'.log = <<>>
                   /\ orders'[i] = orders[i]]_vars

\* C3 witness: a second api_execute_order on an order that MtGox accepted
\* has failed validation.
C3_Witness ==
    /\ market = "mtgox"
    /\ ret.op = "execute" /\ ret.status = "fail"
    /\ ret.err = "Order has already been submitted"
    /\ orders[ret.order].market_order_id \in RemoteIds
    /\ orders[ret.order].status = "O"

----------------------------------------------------------------------------
(* Claims about api_request *)

AllTimeouts(a) == Len(a) = tryout /\ \A k \in 1..Len(a) : a[k] = "timeout"

\* C6: when all 5 attempts of a request time out, the operation returns the
\* failure triple with 'HTTP request failed'; no exception leaves it.
C6_AllTimeoutsReturnFailure ==
    \A j \in DOMAIN ret.log :
        AllTimeouts(ret.log[j].attempts)
            => (ret.status = "fail" /\ ret.err = "HTTP request failed")

\* C7: a request makes at most 5 attempts, and every attempt but the last
\* ended in a timeout: no attempt follows a received response.
C7_RetryOnlyOnTimeout ==
    \A j \in DOMAIN ret.log :
        LET a == ret.log[j].attempts
        IN  /\ Len(a) <= tryout
            /\ \A k \in 1..(Len(a) - 1) : a[k] = "timeout"

\* C7 witness: CampBX answered the fifth attempt after four timeouts.
C7_Witness ==
    /\ market = "campbx"
    /\ ret.op = "price" /\ ret.status = "ok"
    /\ Len(ret.log) = 1
    /\ ret.log[1].attempts = <<"timeout", "timeout", "timeout", "timeout", "ok200">>

----------------------------------------------------------------------------
(* Claims about the price cache *)

ArgPair(arg) == IF arg = NoPair THEN default_currency_pair ELSE arg

\* Some stored quote of the pair is at most 60 seconds old.
HasRecentQuote(pair) ==
    \E i \in 1..Len(prices) :
        /\ <<prices[i].currency_from, prices[i].currency_to>> = pair
        /\ now - prices[i].time <= Seconds(60)

\* The step is a call of api_get_current_market_price(force_update, arg).
PriceStep(force_update, arg) ==
    /\ ret'.op = "price" /\ ret'.force_update = force_update /\ ret'.arg = arg
    /\ ApiGetCurrentMarketPrice(force_update, arg)

\* C8: with force_update false and the latest stored quote of a supported
\* pair at most 60 seconds old, api_get_current_market_price returns that
\* quote, sends nothing and stores nothing.
C8_CacheHit ==
    [][\A arg \in PairArgs :
          (/\ ArgPair(arg) \in supported_currency_pairs(market)
           /\ HasRecentQuote(ArgPair(arg))
           /\ PriceStep(FALSE, arg))
             => /\ ret'.status = "ok"
                /\ ret'.result \in LastPrice(prices, ArgPair(arg))
                /\ ret'.log = <<>>
                /\ prices' = prices
                /\ adm' = adm /\ req_timestamps' = req_timestamps]_vars

\* C8 witness: a quote stored exactly 60 seconds ago has been returned.
C8_Witness ==
    /\ ret.op = "price" /\ ~ret.force_update /\ ret.status = "ok"
    /\ ret.log = <<>>
    /\ ret.result # <<>>
    /\ now - ret.result[1].time = Seconds(60)
    /\ prices = ret.result

\* An operation returned in this step.  The clock's steps leave ret, adm,
\* req_timestamps and prices alone; a call that changes the state changes one
\* of them, and ret then tells which call it was.
Returned ==
    ~(ret' = ret /\ adm' = adm /\ req_timestamps' = req_timestamps /\ prices' = prices)

\* The step is a call of api_get_current_market_price(force_update, arg) that
\* misses: force_update, or no stored quote of the pair is recent.
Miss(force_update, arg) ==
    /\ Returned
    /\ ret'.op = "price" /\ ret'.force_update = force_update /\ ret'.arg = arg
    /\ ArgPair(arg) \in supported_currency_pairs(market)
    /\ (force_update \/ ~HasRecentQuote(ArgPair(arg)))

\* What a miss does when its request succeeds: one quote more, returned.
StoresOne ==
    /\ Len(prices') = Len(prices) + 1
    /\ SubSeq(prices', 1, Len(prices)) = prices
    /\ ret'.result = <<prices'[Len(prices')]>>
    /\ prices'[Len(prices')].time = now'

\* C9 as stated, for the calls that return: a miss makes exactly one network
\* call and, when it succeeds, stores exactly one new quote and returns it.
C9_ExactlyOneNetworkCall ==
    [][\A force_update \in BOOLEAN, arg \in PairArgs :
          (Miss(force_update, arg) /\ ret'.status # "raise")
             => /\ Len(ret'.log) = 1
                /\ Len(ret'.log[1].attempts) = 1
                /\ (ret'.status = "ok" => StoresOne)]_vars

\* C9 as amended: a miss makes exactly one ticker request through
\* api_request, of at most 5 network attempts (each but the last timed out);
\* when the request succeeds exactly one new quote is stored and returned,
\* and otherwise no quote is stored.
C9_OneRequestUpToFiveAttempts ==
    [][\A force_update \in BOOLEAN, arg \in PairArgs :
          Miss(force_update, arg)
             => /\ Len(ret'.log) = 1
                /\ ret'.log[1].path = "ticker"
                /\ Len(ret'.log[1].attempts) <= tryout
                /\ \A k \in 1..(Len(ret'.log[1].attempts) - 1) :
                      ret'.log[1].attempts[k] = "timeout"
                /\ (ret'.status = "ok" => StoresOne)
                /\ (ret'.status # "ok" => prices' = prices /\ ret'.result = <<>>)]_vars

\* C9 witness: a forced refresh, with a fresh quote stored, has fetched and
\* stored a second quote after two timeouts.
C9_Witness ==
    /\ ret.op = "price" /\ ret.force_update /\ ret.status = "ok"
    /\ Len(prices) = 2
    /\ ret.result = <<prices[2]>>
    /\ prices[2].time - prices[1].time <= Seconds(60)
    /\ ret.log[1].attempts = <<"timeout", "timeout", "ok200">>

\* C10: every stored quote has buy_price equal to the ask and sell_price
\* equal to the bid of an order book the exchange reported.
C10_BuyIsAskSellIsBid ==
    \A i \in 1..Len(prices) :
        \E tk \in Tickers :
            prices[i].buy_price = tk.ask /\ prices[i].sell_price = tk.bid


----------------------------------------------------------------------------
(* Claims about reconciliation *)

\* The positions of the records of snapshot whose oid is the order's remote
\* identifier.
Matching(o, snapshot) == {k \in 1..Len(snapshot) : snapshot[k].oid = o.market_order_id}

\* The record agrees with the order: currency legs, amount and, for a market
\* order, a zero price.
Validates(o, r) ==
    /\ r.currency = o.currency_to
    /\ r.item = o.currency_from
    /\ r.amount = o.amount
    /\ o.market_order => r.price = 0

\* The canonical status the claims give for an exchange status.
Canonical(st) ==
    IF st = "pending" \/ st = "executing" \/ st = "post-pending" THEN "E"
    ELSE IF st = "open" THEN "O"
    ELSE IF st = "invalid" THEN "I"
    ELSE "U"

\* A step that reconciles row i with the exchange's list: a step of
\* api_update_order_status on row i that got the list, or a step of
\* api_update_market that got as far as row i in its batch.
ReconcileStep(i) ==
    \/ /\ ret'.op = "update_status"
       /\ ret'.order = i
       /\ ret'.log # <<>>
       /\ ret'.log[1].attempts # <<>>
       /\ ret'.log[1].attempts[Len(ret'.log[1].attempts)] = "ok200"
    \/ /\ ret'.op = "update_market"
       /\ \E j \in 1..Len(ret'.batch) :
             ret'.batch[j] = i /\ (ret'.failed_at = 0 \/ j <= ret'.failed_at)

\* C11: when the list holds a record with the order's remote identifier whose
\* currency legs, amount and (market order) zero price validate, the order's
\* status becomes Executing for 'pending', 'executing' and 'post-pending',
\* Open for 'open', Invalid for 'invalid' and Unknown for any other status.
C11_StatusMapping ==
    [][\A i \in BatchIds :
          ReconcileStep(i) =>
             \A k \in Matching(orders[i], ret'.mtgox_orders) :
                Validates(orders[i], ret'.mtgox_orders[k])
                   => orders'[i].status = Canonical(ret'.mtgox_orders[k].status)]_vars

\* An order found with a status the table does not know is Unknown, after
\* having been Open.
C11_Witness ==
    /\ ret.op = "update_status"
    /\ ret.status = "ok"
    /\ \E k \in Matching(orders[ret.order], ret.mtgox_orders) :
          /\ Validates(orders[ret.order], ret.mtgox_orders[k])
          /\ ret.mtgox_orders[k].status = "stop"
          /\ Len(ret.mtgox_orders) = 2
    /\ orders[ret.order].status = "U"

\* C12: when no record of the list has the order's remote identifier, the
\* order's status becomes Filled if it was Open or Executing, and is left as
\* it was in every other status.
C12_FilledInference ==
    [][\A i \in BatchIds :
          (ReconcileStep(i) /\ Matching(orders[i], ret'.mtgox_orders) = {})
             => /\ orders'[i].status = "F" <=> orders[i].status \in {"O", "E", "F"}
                /\ orders[i].status \notin {"O", "E"} => orders'[i].status = orders[i].status]_vars

\* An order the exchange no longer lists has become Filled while the list
\* held another order.
C12_Witness ==
    /\ ret.op = "update_status"
    /\ ret.status = "ok"
    /\ ret.mtgox_orders # <<>>
    /\ orders[ret.order].market_order_id # ""
    /\ Matching(orders[ret.order], ret.mtgox_orders) = {}
    /\ orders[ret.order].status = "F"

\* C13: when the list holds a record with the order's remote identifier whose
\* quote currency, base currency or amount differs from the order's, or whose
\* price is not zero while the order is a market order, reconciliation reports
\* failure and leaves the order's status as it was.
C13_IntegrityFailure ==
    [][\A i \in BatchIds :
          ReconcileStep(i) =>
             \A k \in Matching(orders[i], ret'.mtgox_orders) :
                ~Validates(orders[i], ret'.mtgox_orders[k])
                   => /\ ret'.status = "fail"
                      /\ orders'[i] = orders[i]]_vars

\* An amount that differs has been reported.
C13_Witness ==
    /\ ret.op = "update_status"
    /\ ret.status = "fail"
    /\ \E k \in Matching(orders[ret.order], ret.mtgox_orders) :
          ret.mtgox_orders[k].amount # orders[ret.order].amount
    /\ orders[ret.order].status \in {"O", "E", "U"}

\* C14: once an order's status is Filled or Invalid, no operation of the
\* adapter, with any list from the exchange, changes its status again.
C14_TerminalFinal ==
    [][\A i \in BatchIds :
          orders[i].status \in {"F", "I"} => orders'[i].status = orders[i].status]_vars

\* C15: every change of an order's status is New to Open by a successful
\* api_execute_order, or from Open or Executing to Open, Executing, Invalid,
\* Unknown or Filled by a reconciliation.
C15_Lifecycle ==
    [][\A i \in BatchIds :
          orders'[i].status # orders[i].status
             => \/ /\ orders[i].status = "N"
                   /\ orders'[i].status = "O"
                   /\ ret'.op = "execute" /\ ret'.order = i /\ ret'.status = "ok"
                \/ /\ orders[i].status \in {"O", "E"}
                   /\ orders'[i].status \in {"O", "E", "I", "U", "F"}
                   /\ ReconcileStep(i)]_vars

\* The parts of C16 that do not depend on how a failure is handed back: after
\* a failed fetch of the list nothing is reconciled, after a failed
\* reconciliation the orders later in the batch are as they were and no quote
\* is asked for or stored.
FailFast ==
    /\ ret'.log[1].path = "orders"
    /\ LastAnswer(ret'.log[1]) # "ok200"
          => orders' = orders /\ prices' = prices /\ Len(ret'.log) = 1 /\ ret'.status # "ok"
    /\ ret'.failed_at > 0
          => /\ \A j \in (ret'.failed_at + 1)..Len(ret'.batch) :
                   orders'[ret'.batch[j]] = orders[ret'.batch[j]]
             /\ orders'[ret'.batch[ret'.failed_at]] = orders[ret'.batch[ret'.failed_at]]
             /\ Len(ret'.log) = 1
             /\ prices' = prices
    /\ Len(ret'.log) = 2 => ret'.log[2].path = "ticker" /\ ret'.failed_at = 0

\* C16: api_update_market reconciles the orders one after another and then
\* refreshes the quote; at the first failure (fetch of the list, a
\* reconciliation, the refresh) it returns that failure, the orders later in
\* the batch are unchanged and no quote is refreshed after a failed
\* reconciliation.
C16_FailFast ==
    [][(ret'.op = "update_market" /\ market = "mtgox")
          => /\ FailFast
             /\ ret'.status \in {"ok", "fail"}
             /\ ret'.status = "ok" <=> /\ Len(ret'.log) = 2
                                       /\ LastAnswer(ret'.log[1]) = "ok200"
                                       /\ LastAnswer(ret'.log[2]) = "ok200"
                                       /\ Len(prices') = Len(prices) + 1]_vars

\* C17: api_cancel_order on an order that is not Open or Executing reports
\* failure without any request; when the cancellation request fails or the
\* exchange's answer does not say success, it reports failure and the order's
\* status and remote identifier are unchanged.
C17_CancelFailure ==
    [][\A i \in BatchIds :
          (ret'.op = "cancel" /\ ret'.order = i)
             => /\ orders[i].status \notin {"O", "E"}
                      => ret'.status = "fail" /\ ret'.log = <<>>
                /\ (ret'.log # <<>> /\ LastAnswer(ret'.log[1]) # "ok200")
                      => /\ ret'.status = "fail"
                         /\ orders'[i].status = orders[i].status
                         /\ orders'[i].market_order_id = orders[i].market_order_id]_vars

----------------------------------------------------------------------------
(* Claims about api_execute_order, continued *)

\* The placement request of the step was sent and the exchange accepted it.
PlacementAccepted ==
    /\ ret'.log # <<>>
    /\ ret'.log[Len(ret'.log)].path = "order_add"
    /\ LastAnswer(ret'.log[Len(ret'.log)]) = "ok200"

\* C18: when the preconditions hold and the exchange accepts the placement
\* request, api_execute_order reports success, the remote identifier is the
\* one the exchange returned, the status is Open and the cached trade fee is
\* marked invalid.
C18_ExecuteSuccess ==
    [][\A i \in OrderIds :
          (ret'.op = "execute" /\ ret'.order = i /\ ~PreconditionFails(market, orders[i])
             /\ PlacementAccepted)
             => /\ ret'.status = "ok"
                /\ ret'.oid \in RemoteIds
                /\ orders'[i].market_order_id = ret'.oid
                /\ orders'[i].status = "O"
                /\ ~trade_fee_valid']_vars

\* An order has been placed, after a timeout, under the second identifier.
C18_Witness ==
    /\ ret.op = "execute"
    /\ ret.status = "ok"
    /\ ret.log[1].attempts = <<"timeout", "ok200">>
    /\ ret.oid = "oid2"
    /\ orders[ret.order].market_order_id = "oid2"
    /\ orders[ret.order].status = "O"
    /\ ~trade_fee_valid

\* C19: when the request made by api_execute_order or
\* api_update_order_status ends in a transport failure, a non-200 status or a
\* 200 response whose body reports failure, the operation reports failure and
\* the order's status, remote identifier and price are as before the call.
C19_FailureMutatesNothing ==
    [][\A i \in BatchIds :
          (/\ ret'.op \in {"execute", "update_status"}
           /\ ret'.order = i
           /\ ret'.log # <<>>
           /\ LastAnswer(ret'.log[Len(ret'.log)]) \in {"timeout", "conn_error", "http_error", "err200"})
             => /\ ret'.status = "fail"
                /\ orders'[i].status = orders[i].status
                /\ orders'[i].market_order_id = orders[i].market_order_id
                /\ orders'[i].price = orders[i].price]_vars

\* The divisors the claim gives: 10^8 for BTC, 10^5 for USD and EUR.
Divisor(c) == IF c = "BTC" THEN 10^8 ELSE 10^5

\* C20: on MtGox the placement payload of an order that is not a market order
\* has amount_int = amount * divisor of the base currency and price_int =
\* price * divisor of the quote currency, as integers; a Buy of 0.5 BTC at 100
\* USD is sent with type 'bid', amount_int 50000000 and price_int 10000000.
\* (amount and price are held in 1/AmountUnit and 1/PriceUnit, so the
\* products are compared after dividing the divisor by the unit.)
C20_WireEncoding ==
    [][\A i \in OrderIds :
          (market = "mtgox" /\ ret'.op = "execute" /\ ret'.order = i /\ ret'.log # <<>>
             /\ ~orders[i].market_order)
             => LET sent == ret'.log[1].post_data
                    o == orders[i]
                IN  /\ ret'.log[1].path = "order_add"
                    /\ DOMAIN sent = {"type", "amount_int", "price_int"}
                    /\ sent["type"] = (IF o.order_type = "B" THEN "bid" ELSE "ask")
                    /\ sent["amount_int"] = o.amount * (Divisor(o.currency_from) \div AmountUnit)
                    /\ sent["price_int"] = o.price * (Divisor(o.currency_to) \div PriceUnit)
                    /\ (o.order_type = "B" /\ o.amount * 2 = AmountUnit /\ o.price = 100 * PriceUnit
                           /\ OrderPair(o) = <<"BTC", "USD">>)
                          => sent = ("type" :> "bid") @@ ("amount_int" :> 50000000)
                                       @@ ("price_int" :> 10000000)]_vars

\* The Buy of 0.5 BTC at 100 USD has been sent, and placed.
C20_Witness ==
    /\ market = "mtgox"
    /\ ret.op = "execute"
    /\ ret.status = "ok"
    /\ ret.log[1].post_data = ("type" :> "bid") @@ ("amount_int" :> 50000000)
                                 @@ ("price_int" :> 10000000)
    /\ orders[ret.order].order_type = "B"
    /\ orders[ret.order].amount * 2 = AmountUnit
    /\ orders[ret.order].price = 100 * PriceUnit
    /\ ~orders[ret.order].market_order

----------------------------------------------------------------------------
(* Requests *)

RequestStep == ret'.op = "request" /\ adm'.n > adm.n

\* C21: a request whose last answer is a non-200 response is reported as a
\* failure.  A request answered with 200 is reported as a success, except
\* that MtGoxMarket with check_success reports a 200 body whose 'result' is
\* not 'success' as a failure, and CampBxMarket reports a 200 body with a
\* non-empty 'Error' as a failure.
C21_Classification ==
    [][RequestStep /\ ret'.status # "raise" =>
         LET a == LastAnswer(ret'.log[1])
             exception == \/ market = "mtgox" /\ ret'.check_success /\ a = "err200"
                          \/ market = "campbx" /\ a = "err200"
         IN  /\ a \in {"http_error", "ok200", "err200"}
             /\ a = "http_error" => ret'.status = "fail"
             /\ a \in {"ok200", "err200"} =>
                    ret'.status = (IF exception THEN "fail" ELSE "ok")]_vars

\* A CampBX request answered 200 with an 'Error' was reported as a failure,
\* after a timed-out attempt.
C21_Witness ==
    /\ ret.op = "request" /\ market = "campbx" /\ ret.status = "fail"
    /\ Len(ret.log[1].attempts) = 2
    /\ LastAnswer(ret.log[1]) = "err200"

----------------------------------------------------------------------------
(* Bitstamp market orders *)

\* C22: a Bitstamp market order that passes the preconditions first has the
\* quote refreshed through a ticker request; when the refresh fails no
\* placement request is sent; when it succeeds a limit order is submitted at
\* the new quote's buy_price (Buy) or sell_price (Sell), and when the
\* placement succeeds that price is recorded on the order.
C22_BitstampMarketOrder ==
    [][\A i \in OrderIds :
          (/\ market = "bitstamp"
           /\ orders[i].market_order
           /\ ~PreconditionFails(market, orders[i])
           /\ ExecuteStep(i))
             => /\ ret'.log # <<>> /\ ret'.log[1].path = "ticker"
                /\ prices' = prices =>
                      \A j \in DOMAIN ret'.log : ret'.log[j].path # "order_add"
                /\ prices' # prices =>
                      LET q == prices'[Len(prices')]
                          p == IF orders[i].order_type = "B" THEN q.buy_price
                               ELSE q.sell_price
                      IN  /\ Len(ret'.log) = 2
                          /\ ret'.log[2].path = "order_add"
                          /\ ret'.log[2].post_data["price"] = p
                          /\ ret'.status = "ok" => orders'[i].price = p]_vars

----------------------------------------------------------------------------
(* Nonces *)

\* The nonces of the signed transmissions of a log, in the order sent: the
\* nonce of a signed request once for each of its attempts.
RECURSIVE SentNonces(_)
SentNonces(log) ==
    IF log = <<>> THEN <<>>
    ELSE LET e == log[1]
         IN  (IF e.nonce = <<>> THEN <<>>
              ELSE [k \in 1..Len(e.attempts) |-> e.nonce[1]]) \o SentNonces(Tail(log))

\* C23: every signed request an adapter instance transmits carries a nonce
\* strictly greater than the nonce of every signed request it transmitted
\* before: within one call, and from one call to the next.  (Stated of the
\* calls that return.)
C23_NonceMonotonic ==
    [][RequestStep /\ ret'.status # "raise" =>
          LET before == SentNonces(ret.log)
              sent == SentNonces(ret'.log)
          IN  /\ \A j, k \in DOMAIN sent : j < k => sent[j] < sent[k]
              /\ \A j \in DOMAIN before, k \in DOMAIN sent : before[j] < sent[k]]_vars

----------------------------------------------------------------------------
(* Admission before every attempt *)

\* C24: every network attempt of a request, retries included, is preceded
\* by one throttle() call of its own: the request's throttle() calls are as
\* many as its attempts.
C24_OneAdmitPerAttempt ==
    [][RequestStep => adm'.n - adm.n = Len(ret'.log[1].attempts)]_vars

----------------------------------------------------------------------------
(* Pruning *)

\* C25: the pruning of throttle() removes every timestamp older than the
\* window: after a throttle() call no recorded timestamp is older than the
\* window at the time of the call, and the suspension computed,
\* window - (now - oldest), is never negative.
C25_PruneRemovesAllStale ==
    ret.op = "throttle" =>
        /\ \A k \in DOMAIN req_timestamps :
               adm.at - req_timestamps[k] <= reqs(market).window
        \* adm.raised: the call was over budget and computed a negative
        \* suspension
        /\ ~adm.raised
        /\ adm.sleep # NoSleep => adm.sleep >= 0

----------------------------------------------------------------------------
(* The cached trade fee *)

\* A step of api_get_trade_fee, and a step of api_execute_order, that is not
\* a repetition leaving everything as it is.  (Only these operations write
\* their name into ret.op.)
FeeStep == ret' # ret /\ ret'.op = "trade_fee"
ExecuteCall == ret' # ret /\ ret'.op = "execute"

\* C26: api_get_trade_fee sends a request only when the cached fee is not
\* valid; a successful lookup marks the fee valid, and while it is valid
\* lookups succeed with no request; a successful api_execute_order marks it
\* invalid; a failed lookup and a failed api_execute_order leave the flag as
\* it was, as does the passing of time.
C26_TradeFeeCache ==
    [][/\ (FeeStep /\ trade_fee_valid) =>
              /\ ret'.status = "ok" /\ ret'.log = <<>>
              /\ adm' = adm /\ req_timestamps' = req_timestamps
              /\ trade_fee_valid'
       /\ (FeeStep /\ ~trade_fee_valid) =>
              /\ Len(ret'.log) = 1 /\ ret'.log[1].path = "info"
              /\ trade_fee_valid' = (ret'.status = "ok")
       /\ ExecuteCall =>
              trade_fee_valid' = (trade_fee_valid /\ ret'.status # "ok")
       /\ ret' = ret => trade_fee_valid' = trade_fee_valid]_vars

\* A lookup has been answered from the cache, after an order was placed and
\* the fee looked up again.
C26_Witness ==
    /\ ret.op = "trade_fee" /\ ret.status = "ok" /\ ret.log = <<>>
    /\ trade_fee_valid
    /\ \E i \in OrderIds : orders[i].status = "O"

----------------------------------------------------------------------------
(* Cancellation *)

\* C27: api_cancel_order leaves the order as it was in every outcome; after
\* an acknowledged cancellation the order is still Open or Executing, and a
\* reconciliation that follows it with a list that omits the order makes
\* the order Filled.
C27_CancelChangesNothing ==
    [][/\ ret'.op = "cancel" =>
              /\ orders' = orders
              /\ ret'.status = "ok" => orders'[ret'.order].status \in {"O", "E"}
       /\ (/\ ret.op = "cancel" /\ ret.status = "ok"
           /\ ReconcileStep(ret.order)
           /\ Matching(orders[ret.order], ret'.mtgox_orders) = {})
              => orders'[ret.order].status = "F"]_vars

\* The exchange has acknowledged, at the second attempt, the cancellation of
\* an order that a reconciliation had found Executing.
C27_Witness ==
    /\ ret.op = "cancel" /\ ret.status = "ok"
    /\ ret.log[1].attempts = <<"timeout", "ok200">>
    /\ orders[ret.order].status = "E"

----------------------------------------------------------------------------
(* The quote refresh of api_update_market *)

\* A step of api_update_market that fetched the list and reconciled every
\* order of its batch.
ReconciledAll ==
    /\ ret'.op = "update_market" /\ market = "mtgox"
    /\ ret'.log # <<>>
    /\ LastAnswer(ret'.log[1]) = "ok200"
    /\ ret'.failed_at = 0

\* The quotes stored for the default pair that are not older than
\* market_price_max_age at time t.
FreshQuotes(prs, t) ==
    {k \in 1..Len(prs) : /\ <<prs[k].currency_from, prs[k].currency_to>> = default_currency_pair
                         /\ t - prs[k].time <= market_price_max_age}

----------------------------------------------------------------------------
(* Unknown orders *)

====
